---- MODULE Spec2Model ----
(***************************************************************************)
(* Model of the SillyTavern MCP extension server (src/index.js) with its   *)
(* validators (src/utils/validation.js, src/utils/schema.js), its logger   *)
(* (src/utils/logger.js) and its browser client (src/public/script.js).    *)
(*                                                                         *)
(* Name resolution.  src/index.js calls validateMCPMessage and             *)
(* validateToolSchema and reads MCPMessageTypes and MCPExecutionStatus     *)
(* without importing them, and src/utils/schema.js calls                   *)
(* validateToolRegistration and validateToolExecution without importing    *)
(* them.  The model resolves every such name to the export of that name in *)
(* the repository (schema.js, respectively validation.js), which is what   *)
(* the call sites are written against.                                     *)
(*                                                                         *)
(* Scheduling.  Node runs one macrotask (an I/O event) at a time and then  *)
(* drains the microtask queue.  The ws receiver emits 'message' (and the   *)
(* close frame) for every frame of one received chunk synchronously, so    *)
(* the synchronous parts of the handlers of several frames of ONE          *)
(* connection may run before the first continuation (code after an await)  *)
(* runs; events of other connections wait until the queue is empty.        *)
(*                                                                         *)
(* Specifications.  Spec, EnvelopeSpec, RegistrationSpec and FairSpec are  *)
(* the same server fed from different sets of frames (well-formed traffic, *)
(* malformed envelopes, registrations, one execution plus discover with    *)
(* weak fairness of the microtask step).  ValueSpec applies the value      *)
(* validator of schema.js to schema/value pairs drawn by its initial       *)
(* predicate while the server stays idle, and ShapeSpec applies the two    *)
(* shape validators (validateSchema of validation.js, validateToolSchema   *)
(* of schema.js) to schemas drawn the same way.  SettingsSpec starts from  *)
(* the loaded module and makes calls of init, POST /settings and the       *)
(* logger.  ClientSpec is the browser client (src/public/script.js) from   *)
(* its first connectWebSocket on, with weak fairness of the browser's      *)
(* event deliveries and timers.                                            *)
(***************************************************************************)
EXTENDS FiniteSets, Integers, Sequences, TLC

\* ------------------------------------------------------------------ bounds
NumPeers == 2
MaxMessages == 2
\* the longest array among the values handed to the value validator
MaxElems == 2

Peers == 1..NumPeers
\* the connection id used for the client of the discovery endpoint
DiscoveryPeer == 0

\* ------------------------------------------------------------- JS values
\* A JSON value: t is its kind, s the text of a string, n the value of a
\* number (the numbers of this model are integers), f the [k, v] pairs of an
\* object in insertion order or the elements of an array (k their index).
Undef == [t |-> "undefined", s |-> "", n |-> 0, f |-> <<>>]
Str(x) == [t |-> "string", s |-> x, n |-> 0, f |-> <<>>]
Num(x) == [t |-> "number", s |-> "", n |-> x, f |-> <<>>]
Obj(pairs) == [t |-> "object", s |-> "", n |-> 0, f |-> pairs]
Bool(b) == [t |-> "boolean", s |-> IF b THEN "true" ELSE "false", n |-> 0, f |-> <<>>]
Null == [t |-> "null", s |-> "", n |-> 0, f |-> <<>>]
Arr(elems) == [t |-> "array", s |-> "", n |-> 0,
               f |-> [i \in 1..Len(elems) |-> [k |-> ToString(i - 1), v |-> elems[i]]]]

\* the strings of this model that stand for one character outside the Basic
\* Multilingual Plane (a module cannot spell the character itself); every
\* other string of the model is ASCII text
Astral == {"U+1F600"}

\* String.prototype.length: the number of UTF-16 code units
length(s) == IF s \in Astral THEN 2 ELSE Len(s)

\* JS truthiness (!v is ~Truthy(v))
Truthy(v) ==
    CASE v.t = "undefined" -> FALSE
      [] v.t = "null" -> FALSE
      [] v.t = "string" -> v.s # ""
      [] v.t = "number" -> v.n # 0
      [] v.t = "boolean" -> v.s = "true"
      [] OTHER -> TRUE

\* typeof v
TypeOf(v) ==
    CASE v.t \in {"object", "array", "null"} -> "object"
      [] OTHER -> v.t

\* key in obj / obj[key] for the own keys of an object value
HasKey(v, k) == \E i \in 1..Len(v.f) : v.f[i].k = k
GetKey(v, k) == IF HasKey(v, k)
                THEN v.f[CHOOSE i \in 1..Len(v.f) : v.f[i].k = k].v
                ELSE Undef

\* ---------------------------------------------------------------- schemas
\* The constraint keywords of a schema, Undef when absent: numbers for the
\* bounds, a boolean for uniqueItems, an array of literals for enum.  The
\* schemas of this model carry no pattern and no format.
NoKeywords ==
    [minItems |-> Undef, maxItems |-> Undef, uniqueItems |-> Undef,
     minLength |-> Undef, maxLength |-> Undef,
     minimum |-> Undef, maximum |-> Undef, multipleOf |-> Undef, enum |-> Undef]

\* A schema value as it arrives in a message.  js is typeof of the value
\* ("undefined" when the field is absent); type is schema.type with ""
\* standing for a missing type (every test of schema.type in the source is
\* a truthiness test or a comparison with a type name, so a missing type
\* and an empty one are not told apart); propsKind/reqKind say whether
\* properties/required are absent, of the expected kind, or some other
\* truthy value (the number 5 in this model, which has no entries); props
\* is the ordered list of [k, v] property schemas; required the list of
\* names; items holds zero or one schema; kw holds the constraint keywords.
Schema(type, propsKind, props, reqKind, required, items) ==
    [js |-> "object", type |-> type, propsKind |-> propsKind, props |-> props,
     reqKind |-> reqKind, required |-> required, items |-> items, kw |-> NoKeywords]
NoSchema == [js |-> "undefined", type |-> "", propsKind |-> "absent", props |-> <<>>,
             reqKind |-> "absent", required |-> <<>>, items |-> <<>>, kw |-> NoKeywords]
Leaf(type) == Schema(type, "absent", <<>>, "absent", <<>>, <<>>)

\* a schema value that is not an object is a non-empty string in this model
SchemaTruthy(s) == s.js # "undefined"

\* the property names every object built by JSON.parse inherits from
\* Object.prototype; each of them reads as a truthy value
ObjectPrototype ==
    {"constructor", "hasOwnProperty", "isPrototypeOf", "propertyIsEnumerable",
     "toLocaleString", "toString", "valueOf", "__proto__", "__defineGetter__",
     "__defineSetter__", "__lookupGetter__", "__lookupSetter__"}

\* schema.properties[k] is truthy, for a properties object: an own entry (a
\* schema, hence truthy, in this model) or an inherited one
HasProp(s, k) ==
    \/ \E i \in 1..Len(s.props) : s.props[i].k = k
    \/ s.propsKind = "object" /\ k \in ObjectPrototype

\* ------------------------------------------------------------ error codes
INVALID_NAME == "INVALID_NAME"
INVALID_SCHEMA == "INVALID_SCHEMA"
INVALID_ARGUMENTS == "INVALID_ARGUMENTS"
INVALID_MESSAGE == "INVALID_MESSAGE"
TOOL_NOT_FOUND == "TOOL_NOT_FOUND"
TOOL_EXECUTION_FAILED == "TOOL_EXECUTION_FAILED"
TOOL_REGISTRATION_FAILED == "TOOL_REGISTRATION_FAILED"
SERVER_ERROR == "SERVER_ERROR"

\* the outcome of a call that may throw: ok, or the MCPError thrown
Ok == [ok |-> TRUE, code |-> "", message |-> ""]
Throw(code, message) == [ok |-> FALSE, code |-> code, message |-> message]

\* ------------------------------------------- src/utils/validation.js
RECURSIVE validateSchema(_)
RECURSIVE validateObjectSchema(_)
RECURSIVE validateArraySchema(_)
RECURSIVE forEachValidateSchema(_, _)
RECURSIVE forEachRequired(_, _)

\* Object.values(schema.properties).forEach(validateSchema): the first throw
forEachValidateSchema(props, i) ==
    IF i > Len(props) THEN Ok
    ELSE LET r == validateSchema(props[i].v)
         IN IF r.ok THEN forEachValidateSchema(props, i + 1) ELSE r

\* schema.required.forEach(prop => { if (!schema.properties[prop]) throw })
forEachRequired(s, i) ==
    IF i > Len(s.required) THEN Ok
    ELSE IF ~HasProp(s, s.required[i])
         THEN Throw(INVALID_SCHEMA, "Required property not defined")
         ELSE forEachRequired(s, i + 1)

validateObjectSchema(s) ==
    LET p == IF s.propsKind = "absent" THEN Ok
             ELSE IF s.propsKind # "object"
                  THEN Throw(INVALID_SCHEMA, "Object properties must be an object")
                  ELSE forEachValidateSchema(s.props, 1)
    IN IF ~p.ok THEN p
       ELSE IF s.reqKind = "absent" THEN Ok
       ELSE IF s.reqKind # "array"
            THEN Throw(INVALID_SCHEMA, "Required properties must be an array")
       ELSE IF s.propsKind = "absent"
            THEN Throw(INVALID_SCHEMA,
                       "Cannot have required properties without properties definition")
       ELSE forEachRequired(s, 1)

validateArraySchema(s) ==
    IF Len(s.items) = 0 \/ ~SchemaTruthy(s.items[1])
    THEN Throw(INVALID_SCHEMA, "Array schema must have items definition")
    ELSE LET r == validateSchema(s.items[1])
         IN IF ~r.ok THEN r
            ELSE IF s.kw.minItems # Undef /\ TypeOf(s.kw.minItems) # "number"
            THEN Throw(INVALID_SCHEMA, "minItems must be a number")
            ELSE IF s.kw.maxItems # Undef /\ TypeOf(s.kw.maxItems) # "number"
            THEN Throw(INVALID_SCHEMA, "maxItems must be a number")
            ELSE IF s.kw.uniqueItems # Undef /\ TypeOf(s.kw.uniqueItems) # "boolean"
            THEN Throw(INVALID_SCHEMA, "uniqueItems must be a boolean")
            ELSE Ok

validateSchema(s) ==
    IF ~SchemaTruthy(s) \/ s.js # "object"
    THEN Throw(INVALID_SCHEMA, "Schema must be an object")
    ELSE IF s.type = ""
    THEN Throw(INVALID_SCHEMA, "Schema must have a type")
    ELSE CASE s.type = "object" -> validateObjectSchema(s)
           [] s.type = "array" -> validateArraySchema(s)
           [] s.type \in {"string", "number", "integer", "boolean", "null"} -> Ok
           [] OTHER -> Throw(INVALID_SCHEMA, "Invalid schema type")

\* data is the object the caller passes: js is typeof of it, name/schema/
\* executionId/args its fields (see Fields below)
validateToolRegistration(data) ==
    IF data.js # "object"
    THEN Throw(INVALID_ARGUMENTS, "Tool registration data must be an object")
    ELSE IF ~Truthy(data.name) \/ TypeOf(data.name) # "string"
    THEN Throw(INVALID_NAME, "Tool name must be a non-empty string")
    ELSE IF ~SchemaTruthy(data.schema) \/ data.schema.js # "object"
    THEN Throw(INVALID_SCHEMA, "Tool schema must be an object")
    ELSE validateSchema(data.schema)

validateToolExecution(data) ==
    IF data.js # "object"
    THEN Throw(INVALID_ARGUMENTS, "Tool execution data must be an object")
    ELSE IF ~Truthy(data.executionId) \/ TypeOf(data.executionId) # "string"
    THEN Throw(INVALID_ARGUMENTS, "Tool execution ID must be a non-empty string")
    ELSE IF ~Truthy(data.name) \/ TypeOf(data.name) # "string"
    THEN Throw(INVALID_NAME, "Tool name must be a non-empty string")
    ELSE IF data.args.t # "undefined" /\ TypeOf(data.args) # "object"
    THEN Throw(INVALID_ARGUMENTS, "Tool arguments must be an object if provided")
    ELSE Ok

\* --------------------------------------------------- src/utils/schema.js
MCPMessageTypes ==
    {"discover", "discover_response", "register_tool", "register_tool_response",
     "execute_tool", "execute_tool_response", "execution_status", "error"}

STARTED == "started"
RUNNING == "running"
COMPLETED == "completed"
FAILED == "failed"
MCPExecutionStatus == {STARTED, RUNNING, COMPLETED, FAILED}

\* the messages of this model carry no server field
validateDiscoverResponse(message) ==
    Throw(INVALID_MESSAGE, "Discover response must include server information")

\* the messages of this model carry no error field
validateErrorMessage(message) ==
    Throw(INVALID_MESSAGE, "Error message must include error information")

\* validateToolRegistration and validateToolExecution receive the envelope
\* itself, not message.data
validateMCPMessage(message) ==
    IF message.js # "object"
    THEN Throw(INVALID_MESSAGE, "Message must be an object")
    ELSE IF ~Truthy(message.type) \/ TypeOf(message.type) # "string"
    THEN Throw(INVALID_MESSAGE, "Message must have a type")
    ELSE IF message.type.s \notin MCPMessageTypes
    THEN Throw(INVALID_MESSAGE, "Invalid message type")
    ELSE CASE message.type.s = "discover" -> Ok
           [] message.type.s = "discover_response" -> validateDiscoverResponse(message)
           [] message.type.s = "register_tool" -> validateToolRegistration(message)
           [] message.type.s = "execute_tool" -> validateToolExecution(message)
           [] message.type.s = "error" -> validateErrorMessage(message)
           [] OTHER -> Ok

\* one entry of an errors list: the message, and for a property's entry the
\* property name and the nested errors that the source joins into the text
Err(msg) == [msg |-> msg, key |-> "", sub |-> <<>>]

RECURSIVE validateToolSchema(_)
RECURSIVE propertyErrors(_, _)

\* for (const [key, propSchema] of Object.entries(schema.properties))
propertyErrors(props, i) ==
    IF i > Len(props) THEN <<>>
    ELSE LET result == validateToolSchema(props[i].v)
         IN (IF result.valid THEN <<>>
             ELSE <<[msg |-> "Invalid property schema for", key |-> props[i].k,
                     sub |-> result.errors]>>)
            \o propertyErrors(props, i + 1)

validateToolSchema(schema) ==
    IF ~SchemaTruthy(schema) \/ schema.js # "object"
    THEN [valid |-> FALSE, errors |-> <<Err("Schema must be an object")>>]
    ELSE LET errors ==
                 (IF schema.type = "" THEN <<Err("Schema must have a type field")>>
                  ELSE <<>>)
              \o (IF schema.propsKind \notin {"absent", "object"}
                  THEN <<Err("Properties must be an object")>> ELSE <<>>)
              \o (IF schema.reqKind \notin {"absent", "array"}
                  THEN <<Err("Required must be an array")>> ELSE <<>>)
              \o (IF schema.propsKind # "absent"
                  THEN propertyErrors(schema.props, 1) ELSE <<>>)
         IN [valid |-> errors = <<>>, errors |-> errors]

\* function validateType(value, type)
validateType(value, type) ==
    CASE type = "string" -> value.t = "string"
      [] type = "number" -> value.t = "number"
      [] type = "integer" -> value.t = "number"
      [] type = "boolean" -> value.t = "boolean"
      [] type = "array" -> value.t = "array"
      [] type = "object" -> value.t = "object"
      [] type = "null" -> value.t = "null"
      [] OTHER -> FALSE

RECURSIVE validateValue(_, _)
RECURSIVE requiredErrors(_, _, _)
RECURSIVE valuePropertyErrors(_, _, _)
RECURSIVE itemErrors(_, _, _)

\* for (const required of schema.required)
requiredErrors(value, required, i) ==
    IF i > Len(required) THEN <<>>
    ELSE (IF ~HasKey(value, required[i])
          THEN <<[msg |-> "Missing required property", key |-> required[i],
                  sub |-> <<>>]>>
          ELSE <<>>)
         \o requiredErrors(value, required, i + 1)

\* for (const [key, propSchema] of Object.entries(schema.properties))
valuePropertyErrors(value, props, i) ==
    IF i > Len(props) THEN <<>>
    ELSE (IF HasKey(value, props[i].k)
          THEN LET result == validateValue(GetKey(value, props[i].k), props[i].v)
               IN IF result.valid THEN <<>>
                  ELSE <<[msg |-> "Property", key |-> props[i].k,
                          sub |-> result.errors]>>
          ELSE <<>>)
         \o valuePropertyErrors(value, props, i + 1)

\* for (let i = 0; i < value.length; i++)
itemErrors(value, items, i) ==
    IF i > Len(value.f) THEN <<>>
    ELSE (LET result == validateValue(value.f[i].v, items)
          IN IF result.valid THEN <<>>
             ELSE <<[msg |-> "Array item", key |-> value.f[i].k,
                     sub |-> result.errors]>>)
         \o itemErrors(value, items, i + 1)

\* a value that === and SameValueZero compare by content; objects and
\* arrays are compared by identity, and two values that JSON.parse built are
\* never the same object
Primitive(v) == v.t \notin {"object", "array"}

\* new Set(value).size for an array value
setSize(value) ==
    Cardinality({value.f[i].v : i \in {j \in 1..Len(value.f) : Primitive(value.f[j].v)}})
    + Cardinality({i \in 1..Len(value.f) : ~Primitive(value.f[i].v)})

\* list.includes(value) for an array of literals
includes(list, value) ==
    Primitive(value) /\ \E i \in 1..Len(list.f) : list.f[i].v = value

\* the checks of an array value that follow the loop over its items
arrayErrors(value, kw) ==
       (IF kw.minItems # Undef /\ Len(value.f) < kw.minItems.n
        THEN <<Err("Array must have at least minItems items")>> ELSE <<>>)
    \o (IF kw.maxItems # Undef /\ Len(value.f) > kw.maxItems.n
        THEN <<Err("Array must have at most maxItems items")>> ELSE <<>>)
    \o (IF Truthy(kw.uniqueItems) /\ setSize(value) # Len(value.f)
        THEN <<Err("Array items must be unique")>> ELSE <<>>)

\* the checks of a string value (no pattern, no format in this model)
stringErrors(value, kw) ==
       (IF kw.minLength # Undef /\ length(value.s) < kw.minLength.n
        THEN <<Err("String length must be >= minLength")>> ELSE <<>>)
    \o (IF kw.maxLength # Undef /\ length(value.s) > kw.maxLength.n
        THEN <<Err("String length must be <= maxLength")>> ELSE <<>>)

\* the checks of a number; the numbers of this model are integers and every
\* multipleOf is positive, for which the remainder is zero in JS exactly when
\* it is zero here
numberErrors_exclusive(value, kw) ==
       (IF kw.minimum # Undef /\ value.n <= kw.minimum.n
        THEN <<Err("Value must be >= minimum")>> ELSE <<>>)
    \o (IF kw.maximum # Undef /\ value.n > kw.maximum.n
        THEN <<Err("Value must be <= maximum")>> ELSE <<>>)
    \o (IF kw.multipleOf # Undef /\ value.n % kw.multipleOf.n # 0
        THEN <<Err("Value must be multiple of multipleOf")>> ELSE <<>>)
numberErrors(value, kw) ==
       (IF kw.minimum # Undef /\ value.n < kw.minimum.n
        THEN <<Err("Value must be >= minimum")>> ELSE <<>>)
    \o (IF kw.maximum # Undef /\ value.n > kw.maximum.n
        THEN <<Err("Value must be <= maximum")>> ELSE <<>>)
    \o (IF kw.multipleOf # Undef /\ value.n % kw.multipleOf.n # 0
        THEN <<Err("Value must be multiple of multipleOf")>> ELSE <<>>)

\* export function validateSchema(value, schema) of schema.js, for a schema
\* that passed shape validation; keys are own keys
validateValue(value, schema) ==
    IF schema.type # "" /\ ~validateType(value, schema.type)
    THEN [valid |-> FALSE,
          errors |-> <<[msg |-> "Expected type", key |-> schema.type, sub |-> <<>>]>>]
    ELSE LET errors ==
                 (IF schema.reqKind = "array" /\ schema.type = "object"
                  THEN requiredErrors(value, schema.required, 1) ELSE <<>>)
              \o (IF schema.propsKind = "object" /\ schema.type = "object"
                  THEN valuePropertyErrors(value, schema.props, 1) ELSE <<>>)
              \o (IF schema.type = "array" /\ Len(schema.items) = 1
                  THEN itemErrors(value, schema.items[1], 1) ELSE <<>>)
              \o (IF schema.type = "array"
                  THEN arrayErrors(value, schema.kw) ELSE <<>>)
              \o (IF schema.type = "string"
                  THEN stringErrors(value, schema.kw) ELSE <<>>)
              \o (IF schema.type \in {"number", "integer"}
                  THEN numberErrors(value, schema.kw) ELSE <<>>)
              \o (IF schema.kw.enum # Undef /\ ~includes(schema.kw.enum, value)
                  THEN <<Err("Value must be one of")>> ELSE <<>>)
         IN [valid |-> errors = <<>>, errors |-> errors]

\* ------------------------------------------------------ inbound messages
\* The fields a registration or execution payload may carry; js is typeof
\* of the payload itself ("undefined" when the envelope has no data).
NoFields == [js |-> "undefined", name |-> Undef, schema |-> NoSchema,
             description |-> Undef, executionId |-> Undef, args |-> Undef]

\* A received frame after JSON.parse: js is typeof of the parsed value
\* ("unparsable" when JSON.parse throws), type is message.type, top holds
\* the payload fields found on the envelope itself and data is message.data.
Envelope(js, type, top, data) ==
    [js |-> js, type |-> type, name |-> top.name, schema |-> top.schema,
     description |-> top.description, executionId |-> top.executionId,
     args |-> top.args, data |-> data]

SObjX == Schema("object", "object", <<[k |-> "x", v |-> Leaf("string")]>>,
                "array", <<"x">>, <<>>)
SObj == Leaf("object")
ArgsHi == Obj(<<[k |-> "x", v |-> Str("hi")]>>)
ArgsEmpty == Obj(<<>>)

RegFields(schema) ==
    [js |-> "object", name |-> Str("echo"), schema |-> schema,
     description |-> Str("Echo tool"), executionId |-> Undef, args |-> Undef]
ExecFields(args) ==
    [js |-> "object", name |-> Str("echo"), schema |-> NoSchema,
     description |-> Undef, executionId |-> Str("e1"), args |-> args]

\* the documented form {type, data: {...}}
Documented(type, fields) == Envelope("object", Str(type), NoFields, fields)
\* an envelope that repeats the payload fields at its top level
Repeated(type, fields) == Envelope("object", Str(type), fields, fields)

Messages ==
    {Documented("discover", NoFields),
     Documented("register_tool", RegFields(SObjX)),
     Envelope("unparsable", Undef, NoFields, NoFields)}
    \cup {Repeated("register_tool", RegFields(sch)) : sch \in {SObjX, SObj}}
    \cup {Repeated("execute_tool", ExecFields(a)) : a \in {ArgsHi, ArgsEmpty}}

\* the frames sent to the discovery endpoint: one for each way its handler
\* ends (response, error, no reply)
DiscoveryMessages ==
    {Documented("discover", NoFields),
     Documented("register_tool", RegFields(SObjX)),
     Documented("execution_status", NoFields)}

\* frames that fail validateMCPMessage or that no case of the switch of
\* handleWebSocketMessage handles: a JSON number, an object without type,
\* one whose type is a number, an unknown type, the documented register_tool
\* (its name is in data, not on the envelope), and execution_status
MalformedMessages ==
    {Envelope("number", Undef, NoFields, NoFields),
     Envelope("object", Undef, NoFields, NoFields),
     Envelope("object", Num(1), NoFields, NoFields),
     Documented("bogus", NoFields),
     Documented("register_tool", RegFields(SObjX)),
     Documented("execution_status", NoFields)}

\* a registration payload with the given name and schema
RegFieldsNamed(name, schema) == [RegFields(schema) EXCEPT !.name = name]

SArray == Schema("array", "absent", <<>>, "absent", <<>>, <<Leaf("string")>>)
SNoItems == Leaf("array")
SBogus == Leaf("bogus")
\* a string schema that carries a properties object with an entry lacking a
\* type: validateSchema of validation.js does not look at the properties of
\* a string schema, validateToolSchema does
SStray == Schema("string", "object", <<[k |-> "x", v |-> Leaf("")]>>,
                 "absent", <<>>, <<>>)

\* register_tool frames: names that are empty, not a string or missing,
\* schemas that validateSchema rejects, and schemas of every top-level type
RegistrationMessages ==
    {Repeated("register_tool", RegFieldsNamed(n, SObjX)) : n \in {Str(""), Num(1), Undef}}
    \cup {Repeated("register_tool", RegFields(sch)) : sch \in {SNoItems, SBogus, NoSchema}}
    \cup {Documented("register_tool", RegFields(sch)) : sch \in {SObjX, SBogus}}
    \cup {Repeated("register_tool", RegFields(Leaf(t))) :
              t \in {"string", "number", "integer", "boolean", "null"}}
    \cup {Repeated("register_tool", RegFields(sch)) : sch \in {SArray, SObjX, SStray}}

\* an execute_tool frame that is handled and a discover frame
ExecutionMessages ==
    {Repeated("execute_tool", ExecFields(ArgsHi)), Documented("discover", NoFields)}

\* ----------------------------------------------------- outbound messages
\* DEFAULT_SETTINGS (src/index.js)
WebsocketPort == 5005
ServerInfo == [name |-> "SillyTavern MCP Server", version |-> "1.0.0",
               capabilities |-> <<"tool_execution">>, websocketPort |-> 0]
NoServer == [name |-> "", version |-> "", capabilities |-> <<>>, websocketPort |-> 0]
NoTool == [name |-> Undef, schema |-> NoSchema, description |-> Undef, registeredAt |-> 0]

\* One call of ws.send.  cause is the number of the inbound message whose
\* handling made the call; delivered says whether the socket was OPEN (ws
\* drops a message sent on a socket that is not OPEN without throwing).
\* JSON.stringify leaves out a property whose value is undefined, which the
\* receiver reads back as undefined: Undef stands for both.
BaseOut == [type |-> "", cause |-> 0, delivered |-> TRUE, code |-> "", message |-> "",
            executionId |-> Undef, status |-> "", at |-> 0, success |-> FALSE,
            tool |-> NoTool, result |-> Undef, server |-> NoServer, tools |-> <<>>]

ErrorOut(cause, code, message, executionId) ==
    [BaseOut EXCEPT !.type = "error", !.cause = cause, !.code = code,
                    !.message = message, !.executionId = executionId]

\* ------------------------------------------------------------------ state
VARIABLES
    conn,            \* per connection of the main endpoint: "none", "open", "closed"
    registeredTools, \* the registeredTools Map, as its entries in insertion order
    inbox,           \* history: the frames received so far, in order of receipt
    sent,            \* history: per connection, the ws.send calls made on it
    pending,         \* the microtask queue: continuations that will send
    batch,           \* the connection whose chunk is being processed, or 0
    invoked,         \* history: the calls of executeTool
    probe,           \* a call of a validator: its arguments and what it returned
    plugin,          \* settings, logger level, listeners and the calls made so far
    client           \* the browser client: its socket, pending close events, timers

vars == <<conn, registeredTools, inbox, sent, pending, batch, invoked, probe, plugin,
         client>>

Endpoints == Peers \cup {DiscoveryPeer}

\* ws.readyState === WebSocket.OPEN (the discovery client stays connected)
readyOpen(q) == q = DiscoveryPeer \/ conn[q] = "open"

\* wsServer.clients
clients == {q \in Peers : conn[q] # "none"}

Send(ws, out) == [to |-> ws, out |-> out]

RECURSIVE applySends(_, _, _)
applySends(log, sends, i) ==
    IF i > Len(sends) THEN log
    ELSE applySends(
            [log EXCEPT ![sends[i].to] =
                Append(@, [sends[i].out EXCEPT !.delivered = readyOpen(sends[i].to)])],
            sends, i + 1)

\* what a handler run did: the sends in order, the continuations it queued,
\* the executeTool calls it made, and the error it threw (Ok if none)
Ran(sends, conts, calls, threw) ==
    [sends |-> sends, conts |-> conts, calls |-> calls, threw |-> threw]

\* ------------------------------------------------------------ src/index.js
\* mutant: the response is sent twice
handleDiscovery_twice(ws, id) ==
    <<Send(ws, [BaseOut EXCEPT !.type = "discover_response", !.cause = id,
                               !.server = ServerInfo]),
      Send(ws, [BaseOut EXCEPT !.type = "discover_response", !.cause = id,
                               !.server = ServerInfo])>>

\* function handleDiscovery(ws)
handleDiscovery(ws, id) ==
    <<Send(ws, [BaseOut EXCEPT !.type = "discover_response", !.cause = id,
                               !.server = ServerInfo])>>

\* mutant: the broadcast does not skip the origin
broadcastTargets_all(ws) == {q \in clients : conn[q] = "open"}

\* the receivers of the registration broadcast
broadcastTargets(ws) == {q \in clients : q # ws /\ conn[q] = "open"}

RECURSIVE forEachClient(_, _, _)
forEachClient(targets, out, q) ==
    IF q > NumPeers THEN <<>>
    ELSE (IF q \in targets THEN <<Send(q, out)>> ELSE <<>>)
         \o forEachClient(targets, out, q + 1)

\* function handleToolRegistration(ws, data).  validateToolSchema returns its
\* result, which is not read; nothing in the try block throws, and the
\* registeredTools Map is not written.
handleToolRegistration(ws, data, id, now) ==
    LET result == validateToolSchema(data.schema)
        tool == [name |-> data.name, schema |-> data.schema,
                 description |-> data.description, registeredAt |-> now]
    IN <<Send(ws, [BaseOut EXCEPT !.type = "register_tool_response", !.cause = id,
                                  !.success = TRUE, !.tool = tool])>>
       \o forEachClient(broadcastTargets(ws),
                        [BaseOut EXCEPT !.type = "register_tool", !.cause = id,
                                        !.tool = tool], 1)

\* mutant: the rejection carries another code
executeTool_otherCode(name, args) ==
    [ok |-> FALSE, code |-> TOOL_EXECUTION_FAILED, message |-> "Tool not implemented",
     value |-> Undef]

\* async function executeTool(name, args): the promise it returns, here
\* always rejected
executeTool(name, args) ==
    [ok |-> FALSE, code |-> TOOL_NOT_FOUND, message |-> "Tool not implemented",
     value |-> Undef]

\* mutant: the status goes to every open client
sendStatus_broadcast(ws, id, executionId, now, status, result, code, message) ==
    forEachClient({q \in clients : conn[q] = "open"},
                  [BaseOut EXCEPT !.type = "execution_status", !.cause = id,
                                  !.executionId = executionId, !.status = status,
                                  !.at = now, !.result = result, !.code = code,
                                  !.message = message], 1)

\* const sendStatus = (status, details = {}) => { ws.send(...) }
sendStatus(ws, id, executionId, now, status, result, code, message) ==
    <<Send(ws, [BaseOut EXCEPT !.type = "execution_status", !.cause = id,
                               !.executionId = executionId, !.status = status,
                               !.at = now, !.result = result, !.code = code,
                               !.message = message])>>

\* a queued continuation: of handleToolExecution after await executeTool
\* (outcome is the settled promise), or of the 'message' listener after
\* await handleWebSocketMessage rejected (code, message: the error)
Continuation(kind, ws, id, executionId, outcome, code, message) ==
    [kind |-> kind, ws |-> ws, id |-> id, executionId |-> executionId,
     outcome |-> outcome, code |-> code, message |-> message]

\* async function handleToolExecution(ws, data), up to the await
handleToolExecution(ws, data, id, now) ==
    Ran(sendStatus(ws, id, data.executionId, now, STARTED, Undef, "", ""),
        <<Continuation("handleToolExecution", ws, id, data.executionId,
                       executeTool(data.name, data.args), "", "")>>,
        <<[cause |-> id, name |-> data.name, args |-> data.args]>>,
        Ok)

\* mutant: the continuation is dropped when the origin is no longer open
resumeToolExecution_abortOnClose(c, now) ==
    IF ~readyOpen(c.ws) THEN <<>>
    ELSE sendStatus(c.ws, c.id, c.executionId, now, FAILED, Undef, c.outcome.code,
                    c.outcome.message)
         \o <<Send(c.ws, ErrorOut(c.id, c.outcome.code, c.outcome.message,
                                  c.executionId))>>

\* mutant: the catch block runs after the completed status was sent
resumeToolExecution_completedThenFailed(c, now) ==
    sendStatus(c.ws, c.id, c.executionId, now, COMPLETED, Undef, "", "")
    \o sendStatus(c.ws, c.id, c.executionId, now, FAILED, Undef, c.outcome.code,
                  c.outcome.message)
    \o <<Send(c.ws, ErrorOut(c.id, c.outcome.code, c.outcome.message, c.executionId))>>

\* mutant: the catch block sends the error envelope before the failed status
resumeToolExecution_errorFirst(c, now) ==
    <<Send(c.ws, ErrorOut(c.id, c.outcome.code, c.outcome.message, c.executionId))>>
    \o sendStatus(c.ws, c.id, c.executionId, now, FAILED, Undef, c.outcome.code,
                  c.outcome.message)

\* handleToolExecution after the await: the rest of the try block when the
\* promise was fulfilled, the catch block when it was rejected
resumeToolExecution(c, now) ==
    IF c.outcome.ok
    THEN sendStatus(c.ws, c.id, c.executionId, now, COMPLETED, c.outcome.value, "", "")
         \o <<Send(c.ws, [BaseOut EXCEPT !.type = "execute_tool_response",
                                         !.cause = c.id,
                                         !.executionId = c.executionId,
                                         !.result = c.outcome.value])>>
    ELSE LET code == IF c.outcome.code # "" THEN c.outcome.code
                     ELSE TOOL_EXECUTION_FAILED
         IN sendStatus(c.ws, c.id, c.executionId, now, FAILED, Undef, code,
                       c.outcome.message)
            \o <<Send(c.ws, ErrorOut(c.id, code, c.outcome.message, c.executionId))>>

\* async function handleWebSocketMessage(ws, message), up to its first await
handleWebSocketMessage(ws, message, id, now) ==
    LET v == validateMCPMessage(message)
    IN IF ~v.ok THEN Ran(<<>>, <<>>, <<>>, v)
       ELSE CASE message.type.s = "discover" ->
                   Ran(handleDiscovery(ws, id), <<>>, <<>>, Ok)
              [] message.type.s = "register_tool" ->
                   LET r == validateToolRegistration(message.data)
                   IN IF ~r.ok THEN Ran(<<>>, <<>>, <<>>, r)
                      ELSE Ran(handleToolRegistration(ws, message.data, id, now),
                               <<>>, <<>>, Ok)
              [] message.type.s = "execute_tool" ->
                   LET r == validateToolExecution(message.data)
                   IN IF ~r.ok THEN Ran(<<>>, <<>>, <<>>, r)
                      ELSE handleToolExecution(ws, message.data, id, now)
              [] OTHER ->
                   Ran(<<>>, <<>>, <<>>,
                       Throw(INVALID_MESSAGE, "Unsupported message type"))

\* mutant: the catch block does not test readyState
catchSend_unguarded(ws, id, code, message) ==
    <<Send(ws, ErrorOut(id, IF code # "" THEN code ELSE SERVER_ERROR,
                        message, Undef))>>

\* the error envelope of the listeners' catch blocks, sent only when the
\* socket is OPEN; an error without a code is reported as SERVER_ERROR
catchSend(ws, id, code, message) ==
    IF readyOpen(ws)
    THEN <<Send(ws, ErrorOut(id, IF code # "" THEN code ELSE SERVER_ERROR,
                             message, Undef))>>
    ELSE <<>>

\* ws.on('message', async (data) => {...}) of handleWebSocketConnection, up
\* to its await.  JSON.parse throws inside the try block before any await,
\* so its catch runs at once; a rejection of handleWebSocketMessage is
\* caught after the await, in a continuation.
onMessage(ws, message, id, now) ==
    IF message.js = "unparsable"
    THEN Ran(catchSend(ws, id, "", "Unexpected token"), <<>>, <<>>, Ok)
    ELSE LET h == handleWebSocketMessage(ws, message, id, now)
         IN IF h.threw.ok THEN h
            ELSE Ran(h.sends,
                     <<Continuation("listenerCatch", ws, id, Undef,
                                    executeTool(Undef, Undef),
                                    h.threw.code, h.threw.message)>>,
                     h.calls, Ok)

\* ws.on('message', async (data) => {...}) of handleDiscoveryConnection: no
\* await precedes its sends or its catch block
onDiscoveryMessage(ws, message, id) ==
    IF message.js = "unparsable"
    THEN catchSend(ws, id, "", "Unexpected token")
    ELSE LET v == validateMCPMessage(message)
         IN IF ~v.ok THEN catchSend(ws, id, v.code, v.message)
            ELSE IF message.type.s = "discover"
            THEN <<Send(ws, [BaseOut EXCEPT
                        !.type = "discover_response", !.cause = id,
                        !.server = [ServerInfo EXCEPT !.websocketPort = WebsocketPort],
                        !.tools = [i \in 1..Len(registeredTools) |->
                                     [name |-> registeredTools[i].tool.name,
                                      description |->
                                          registeredTools[i].tool.description]]])>>
            ELSE <<>>

\* ------------------------------------------------ src/utils/logger.js
\* the keys of LogLevels
LogLevels == {"DEBUG", "INFO", "WARN", "ERROR"}

\* LOG_LEVEL_VALUES, keyed by the values of LogLevels
LOG_LEVEL_VALUES == [debug |-> 0, info |-> 1, warn |-> 2, error |-> 3]

\* the property key a value is converted to by the in operator
ToKey(v) ==
    CASE v.t = "string" -> v.s
      [] v.t = "number" -> ToString(v.n)
      [] v.t = "boolean" -> v.s
      [] v.t \in {"undefined", "null"} -> v.t
      [] OTHER -> "[object Object]"

\* Logger.setLevel(level): the logger's level afterwards.  level in LogLevels
\* looks the argument up among the keys of LogLevels and the names it
\* inherits.
setLevel(this_level, level) ==
    IF ToKey(level) \in LogLevels \cup ObjectPrototype THEN level ELSE this_level

\* Logger.isLevelEnabled(level): a level without an entry in LOG_LEVEL_VALUES
\* reads as undefined, and a comparison with undefined is false
isLevelEnabled(this_level, level) ==
    /\ level \in DOMAIN LOG_LEVEL_VALUES
    /\ this_level.t = "string"
    /\ this_level.s \in DOMAIN LOG_LEVEL_VALUES
    /\ LOG_LEVEL_VALUES[level] >= LOG_LEVEL_VALUES[this_level.s]

\* Logger.log(level, ...): the console lines written, each as its level
log(this_level, level) == IF isLevelEnabled(this_level, level) THEN <<level>> ELSE <<>>

\* ------------------------------------------------- settings (src/index.js)
\* the parts of a settings object, of a plugin configuration or of a request
\* body that the code reads; Undef stands for a key that is absent
NoArg == [websocket |-> Undef, logging |-> Undef, level |-> Undef]
Body(websocket, logging) == [NoArg EXCEPT !.websocket = websocket, !.logging = logging]

Port(n) == Obj(<<[k |-> "port", v |-> Num(n)]>>)
Level(l) == Obj(<<[k |-> "level", v |-> Str(l)]>>)

DEFAULT_SETTINGS ==
    Body(Obj(<<[k |-> "port", v |-> Num(WebsocketPort)],
               [k |-> "discoveryEnabled", v |-> Bool(TRUE)],
               [k |-> "discoveryPort", v |-> Num(5006)]>>),
         Level("info"))

\* { ...settings, ...body }: a key of body replaces the whole value of the key
spread(settings, body) ==
    Body(IF body.websocket # Undef THEN body.websocket ELSE settings.websocket,
         IF body.logging # Undef THEN body.logging ELSE settings.logging)

\* reading a property of null or undefined throws a TypeError
Nullish(v) == v.t \in {"undefined", "null"}
\* v[k] for a value that is not nullish
Prop(v, k) == IF v.t = "object" THEN GetKey(v, k) ELSE Undef

\* validateSettings(settings) of validation.js, for a settings object
validateSettings(settings) ==
    LET port == Prop(settings.websocket, "port")
        level == Prop(settings.logging, "level")
    IN IF Truthy(settings.websocket) /\ TypeOf(settings.websocket) # "object"
       THEN Throw(INVALID_ARGUMENTS, "WebSocket settings must be an object")
       ELSE IF /\ Truthy(settings.websocket)
               /\ port # Undef
               /\ (port.t # "number" \/ port.n < 1024 \/ port.n > 65535)
       THEN Throw(INVALID_ARGUMENTS,
                  "WebSocket port must be an integer between 1024 and 65535")
       ELSE IF Truthy(settings.logging) /\ TypeOf(settings.logging) # "object"
       THEN Throw(INVALID_ARGUMENTS, "Logging settings must be an object")
       ELSE IF /\ Truthy(settings.logging)
               /\ level # Undef
               /\ ~(level.t = "string" /\ level.s \in {"debug", "info", "warn", "error"})
       THEN Throw(INVALID_ARGUMENTS, "Invalid log level")
       ELSE Ok

\* a WebSocketServer variable: null, or a server that listens or was closed
NoListener == [state |-> "null", port |-> Undef]

\* server.close() when the variable holds a server
closeListener(server) ==
    IF server.state = "null" THEN server ELSE [server EXCEPT !.state = "closed"]

\* if (server) server.close(); try { server = new WebSocketServer({ port }) }
\* catch { log }: the constructor throws when port is null or undefined, and
\* the variable keeps the server that was just closed
openListener(server, port) ==
    IF Nullish(port) THEN closeListener(server)
    ELSE [state |-> "listening", port |-> port]

\* one entry of the history of calls: the operation, its argument, how it
\* ended, the arguments it passed to logger.setLevel and the lines it wrote
Call(op, arg, status, levels, lines) ==
    [op |-> op, arg |-> arg, status |-> status, setLevel |-> levels, lines |-> lines]

\* the plugin when its module has been loaded
PluginLoaded ==
    [settings |-> DEFAULT_SETTINGS, level |-> Str("info"), initialized |-> FALSE,
     wsServer |-> NoListener, discoveryServer |-> NoListener, calls |-> <<>>]

\* initServers(), with the settings already stored in p; threw says whether
\* the read of settings.websocket.discoveryEnabled threw
initServers(p) ==
    LET websocket == p.settings.websocket
        ws == IF Nullish(websocket) THEN closeListener(p.wsServer)
              ELSE openListener(p.wsServer, Prop(websocket, "port"))
    IN IF Nullish(websocket)
       THEN [plugin |-> [p EXCEPT !.wsServer = ws], threw |-> TRUE]
       ELSE IF Truthy(Prop(websocket, "discoveryEnabled"))
       THEN [plugin |-> [p EXCEPT !.wsServer = ws,
                                  !.discoveryServer =
                                      openListener(p.discoveryServer,
                                                   Prop(websocket, "discoveryPort"))],
             threw |-> FALSE]
       ELSE [plugin |-> [p EXCEPT !.wsServer = ws], threw |-> FALSE]

\* init(pluginConfig): the plugin afterwards
init(p, pluginConfig) ==
    LET lines == log(p.level, "info")
        newSettings == spread(DEFAULT_SETTINGS, pluginConfig)
        ended(q, status, levels) ==
            [q EXCEPT !.calls = Append(@, Call("init", pluginConfig, status, levels,
                                               lines))]
    IN IF ~validateSettings(newSettings).ok THEN ended(p, "rejected", <<>>)
       ELSE LET stored == [p EXCEPT !.settings = newSettings]
            IN IF Nullish(newSettings.logging) THEN ended(stored, "rejected", <<>>)
               ELSE LET level == Prop(newSettings.logging, "level")
                        r == initServers([stored EXCEPT
                                              !.level = setLevel(p.level, level)])
                    IN IF r.threw THEN ended(r.plugin, "rejected", <<level>>)
                       ELSE ended([r.plugin EXCEPT !.initialized = TRUE],
                                  "resolved", <<level>>)

\* the handler of POST /settings followed by errorHandler: the plugin
\* afterwards.  initWebSocketServer is not defined in the module, so the call
\* throws a ReferenceError.
postSettings(p, body) ==
    LET newSettings == spread(p.settings, body)
        ended(q, status, levels) ==
            [q EXCEPT !.calls = Append(@, Call("post", body, status, levels, <<>>))]
    IN IF ~validateSettings(newSettings).ok THEN ended(p, "400", <<>>)
       ELSE LET stored == [p EXCEPT !.settings = newSettings]
            IN IF Nullish(newSettings.logging) THEN ended(stored, "500", <<>>)
               ELSE LET level == Prop(newSettings.logging, "level")
                        set == [stored EXCEPT !.level = setLevel(p.level, level)]
                    IN IF ~Nullish(body.websocket)
                          /\ Prop(body.websocket, "port") # Undef
                       THEN ended(set, "500", <<level>>)
                       ELSE ended(set, "200", <<level>>)

\* the plugin after init() without a configuration
Started == [init(PluginLoaded, NoArg) EXCEPT !.calls = <<>>]

\* ------------------------------------------- src/public/script.js
\* window.mcpExtension when the script has been loaded: socket is the state
\* of window.mcpExtension.socket ("null" or a readyState), stale the number
\* of replaced sockets whose close event is still to come, timers the
\* number of pending setTimeout(connectWebSocket, 5000), connected what
\* updateConnectionStatus last showed
ClientLoaded ==
    [socket |-> "null", stale |-> 0, timers |-> 0, connected |-> FALSE,
     clicks |-> 0, losses |-> 0, reachable |-> TRUE]

\* connectWebSocket(): close() on a socket that is connecting or open makes
\* its close event come later, on any other socket it does nothing; the new
\* socket replaces it
connectWebSocket(c) ==
    [c EXCEPT !.stale = IF c.socket \in {"connecting", "open"} THEN @ + 1 ELSE @,
              !.socket = "connecting"]

\* socket.onclose: the handler does not look at which socket closed
onclose(c) == [c EXCEPT !.connected = FALSE, !.timers = @ + 1]

\* ---------------------------------------------------------------- actions
\* no validator call is under check
NoProbe == [call |-> "", schema |-> NoSchema, value |-> Undef, done |-> FALSE,
            result |-> [valid |-> TRUE, errors |-> <<>>]]

\* nobody is connected and nothing has been received
Quiet ==
    /\ conn = [p \in Peers |-> "none"]
    /\ registeredTools = <<>>
    /\ inbox = <<>>
    /\ sent = [e \in Endpoints |-> <<>>]
    /\ pending = <<>>
    /\ batch = 0
    /\ invoked = <<>>

\* the plugin state after init: servers listening, nobody connected; the
\* browser client has not started
ServerInit ==
    /\ Quiet
    /\ plugin = Started
    /\ client = ClientLoaded

Init == ServerInit /\ probe = NoProbe

\* wsServer 'connection': a new client of the main endpoint.  Connections
\* are numbered in the order in which they are made.
Connect(p) ==
    /\ pending = <<>>
    /\ conn[p] = "none"
    /\ \A q \in Peers : q < p => conn[q] # "none"
    /\ conn' = [conn EXCEPT ![p] = "open"]
    /\ UNCHANGED <<registeredTools, inbox, sent, pending, batch, invoked, probe, plugin,
                 client>>

\* the close frame of a client: readyState leaves OPEN.  It may follow data
\* frames in the same chunk, before their continuations have run.
Close(p) ==
    /\ pending = <<>> \/ batch = p
    /\ conn[p] = "open"
    /\ conn' = [conn EXCEPT ![p] = "closed"]
    /\ UNCHANGED <<registeredTools, inbox, sent, pending, batch, invoked, probe, plugin,
                 client>>

\* the handler run reached the registration broadcast
Registered(sends) == \E i \in 1..Len(sends) : sends[i].out.type = "register_tool_response"

\* a frame arrives on an open connection of the main endpoint; inbox records
\* with it, when its handling reached the registration broadcast, the
\* connections that were OPEN at that moment
Message(p, m) ==
    /\ pending = <<>> \/ batch = p
    /\ conn[p] = "open"
    /\ Len(inbox) < MaxMessages
    /\ LET id == Len(inbox) + 1
           h == onMessage(p, m, id, id)
       IN /\ inbox' = Append(inbox, [peer |-> p, msg |-> m,
                                     open |-> IF Registered(h.sends)
                                              THEN {q \in Peers : conn[q] = "open"}
                                              ELSE {}])
          /\ sent' = applySends(sent, h.sends, 1)
          /\ pending' = pending \o h.conts
          /\ invoked' = invoked \o h.calls
          /\ batch' = IF pending' = <<>> THEN 0 ELSE p
    /\ UNCHANGED <<conn, registeredTools, probe, plugin,
                 client>>

\* a frame arrives on the discovery endpoint
DiscoveryMessage(m) ==
    /\ pending = <<>>
    /\ Len(inbox) < MaxMessages
    /\ LET id == Len(inbox) + 1
       IN /\ inbox' = Append(inbox, [peer |-> DiscoveryPeer, msg |-> m, open |-> {}])
          /\ sent' = applySends(sent, onDiscoveryMessage(DiscoveryPeer, m, id), 1)
    /\ UNCHANGED <<conn, registeredTools, pending, batch, invoked, probe, plugin,
                 client>>

\* the oldest queued continuation runs; once the queue is being drained no
\* further frame of the chunk is handled before it is empty
RunMicrotask ==
    /\ pending # <<>>
    /\ LET c == Head(pending)
           sends == IF c.kind = "listenerCatch"
                    THEN catchSend(c.ws, c.id, c.code, c.message)
                    ELSE resumeToolExecution(c, Len(inbox))
       IN sent' = applySends(sent, sends, 1)
    /\ pending' = Tail(pending)
    /\ batch' = 0
    /\ UNCHANGED <<conn, registeredTools, inbox, invoked, probe, plugin,
                 client>>

Next ==
    \/ \E p \in Peers : Connect(p)
    \/ \E p \in Peers : Close(p)
    \/ \E p \in Peers, m \in Messages : Message(p, m)
    \/ \E m \in DiscoveryMessages : DiscoveryMessage(m)
    \/ RunMicrotask

Spec == Init /\ [][Next]_vars

\* the same server receiving the frames of MalformedMessages
EnvelopeNext ==
    \/ \E p \in Peers : Connect(p)
    \/ \E p \in Peers : Close(p)
    \/ \E p \in Peers, m \in MalformedMessages : Message(p, m)
    \/ \E m \in DiscoveryMessages : DiscoveryMessage(m)
    \/ RunMicrotask

EnvelopeSpec == Init /\ [][EnvelopeNext]_vars

\* the same server receiving the frames of RegistrationMessages
RegistrationNext ==
    \/ \E p \in Peers : Connect(p)
    \/ \E p \in Peers : Close(p)
    \/ \E p \in Peers, m \in RegistrationMessages : Message(p, m)
    \/ RunMicrotask

RegistrationSpec == Init /\ [][RegistrationNext]_vars

\* the same server receiving the frames of ExecutionMessages.  Node drains
\* the microtask queue before it takes the next I/O event, so a queued
\* continuation always runs: weak fairness of RunMicrotask.
ExecutionNext ==
    \/ \E p \in Peers : Connect(p)
    \/ \E p \in Peers : Close(p)
    \/ \E p \in Peers, m \in ExecutionMessages : Message(p, m)
    \/ RunMicrotask

FairSpec == Init /\ [][ExecutionNext]_vars /\ WF_vars(RunMicrotask)

\* ------------------------------------------- calls of the value validator
\* the elements of the arrays handed to the validator
Elems ==
    {Num(1), Num(2), Str("a"), Obj(<<[k |-> "x", v |-> Str("a")]>>), Arr(<<Num(1)>>)}

RECURSIVE Seqs(_, _)
\* the sequences over set of length n
Seqs(set, n) ==
    IF n = 0 THEN {<<>>}
    ELSE {Append(q, e) : q \in Seqs(set, n - 1), e \in set}

\* the values handed to the validator
Values ==
    {Str(""), Str("a"), Str("hi"), Str("U+1F600"), Num(0), Num(1), Num(2), Num(3),
     Bool(TRUE), Null, Obj(<<>>), Obj(<<[k |-> "x", v |-> Str("a")]>>),
     Obj(<<[k |-> "x", v |-> Num(1)]>>)}
    \cup {Arr(q) : q \in UNION {Seqs(Elems, n) : n \in 0..MaxElems}}

\* an array schema with the given items schema
ArrayOf(items) == Schema("array", "absent", <<>>, "absent", <<>>, <<items>>)

\* the schemas handed to the validator
ValueSchemas ==
    {Leaf("string"),
     [Leaf("string") EXCEPT !.kw.minLength = Num(1)],
     [Leaf("string") EXCEPT !.kw.maxLength = Num(1)],
     [Leaf("string") EXCEPT !.kw.enum = Arr(<<Str("a"), Str("hi")>>)],
     [Leaf("number") EXCEPT !.kw.minimum = Num(1), !.kw.maximum = Num(2)],
     [Leaf("integer") EXCEPT !.kw.multipleOf = Num(2)],
     [Leaf("integer") EXCEPT !.kw.minimum = Num(0), !.kw.maximum = Num(2),
                             !.kw.multipleOf = Num(3)],
     [Leaf("number") EXCEPT !.kw.minimum = Num(3), !.kw.maximum = Num(0)],
     [Leaf("integer") EXCEPT !.kw.enum = Arr(<<Num(1), Num(3)>>)],
     Leaf("boolean"), Leaf("null"),
     SObjX,
     [SObj EXCEPT !.kw.enum = Arr(<<Obj(<<[k |-> "x", v |-> Str("a")]>>)>>)],
     [ArrayOf(Leaf("number")) EXCEPT !.kw.uniqueItems = Bool(TRUE)],
     [ArrayOf(Leaf("object")) EXCEPT !.kw.uniqueItems = Bool(TRUE)],
     [ArrayOf(ArrayOf(Leaf("number"))) EXCEPT !.kw.uniqueItems = Bool(TRUE)],
     [ArrayOf(Leaf("number")) EXCEPT !.kw.uniqueItems = Bool(FALSE)],
     [ArrayOf(Leaf("string")) EXCEPT !.kw.minItems = Num(1), !.kw.maxItems = Num(1)]}

\* a caller is about to validate probe.value against probe.schema
ValueInit ==
    /\ ServerInit
    /\ probe \in {[NoProbe EXCEPT !.schema = sch, !.value = v] :
                      sch \in ValueSchemas, v \in Values}

\* the call validateSchema(value, schema) of schema.js returns
Validate ==
    /\ ~probe.done
    /\ probe' = [probe EXCEPT !.done = TRUE,
                              !.result = validateValue(probe.value, probe.schema)]
    /\ UNCHANGED <<conn, registeredTools, inbox, sent, pending, batch, invoked, plugin,
                 client>>

ValueNext == Validate

ValueSpec == ValueInit /\ [][ValueNext]_vars

\* ------------------------------------------ calls of the shape validators
\* how deep the schemas handed to the shape validators nest
MaxDepth == 2

\* schemas without sub-schemas: a basic kind, no kind, an unknown kind, an
\* array without items, an object without properties, and an object with
\* required: [] and no properties
ShapeLeaves ==
    {Leaf("string"), Leaf("number"), Leaf(""), Leaf("bogus"), Leaf("array"),
     Leaf("object"), Schema("object", "absent", <<>>, "array", <<>>, <<>>)}

\* the required lists of an object schema whose one property is "a": none,
\* [], the declared name, an undeclared name, a name of Object.prototype
RequiredLists ==
    {[kind |-> "absent", names |-> <<>>], [kind |-> "array", names |-> <<>>],
     [kind |-> "array", names |-> <<"a">>], [kind |-> "array", names |-> <<"z">>],
     [kind |-> "array", names |-> <<"constructor">>]}

RECURSIVE ShapeNodes(_)
\* the schemas that nest at most d levels of properties and items
ShapeNodes(d) ==
    IF d = 0 THEN ShapeLeaves
    ELSE LET sub == ShapeNodes(d - 1)
         IN sub
            \cup {Schema("object", "object", <<[k |-> "a", v |-> n]>>,
                         r.kind, r.names, <<>>) : n \in sub, r \in RequiredLists}
            \cup {ArrayOf(n) : n \in sub}

\* object schemas with two sibling properties
Siblings ==
    {Schema("object", "object", <<[k |-> "a", v |-> m], [k |-> "b", v |-> n]>>,
            "absent", <<>>, <<>>) : m \in ShapeLeaves, n \in ShapeLeaves}

\* the schemas handed to the shape validators
ShapeSchemas == ShapeNodes(MaxDepth) \cup Siblings \cup {ArrayOf(n) : n \in Siblings}

\* a caller is about to validate the shape of probe.schema with probe.call
ShapeInit ==
    /\ ServerInit
    /\ probe \in {[NoProbe EXCEPT !.call = c, !.schema = sch] :
                      c \in {"validateSchema", "validateToolSchema"},
                      sch \in ShapeSchemas}

\* the call validateSchema(schema) of validation.js returns or throws
ShapeThrows ==
    /\ ~probe.done
    /\ probe.call = "validateSchema"
    /\ probe' = [probe EXCEPT !.done = TRUE, !.result = validateSchema(probe.schema)]
    /\ UNCHANGED <<conn, registeredTools, inbox, sent, pending, batch, invoked, plugin,
                 client>>

\* the call validateToolSchema(schema) of schema.js returns
ShapeReports ==
    /\ ~probe.done
    /\ probe.call = "validateToolSchema"
    /\ probe' = [probe EXCEPT !.done = TRUE,
                              !.result = validateToolSchema(probe.schema)]
    /\ UNCHANGED <<conn, registeredTools, inbox, sent, pending, batch, invoked, plugin,
                 client>>

ShapeNext == ShapeThrows \/ ShapeReports

ShapeSpec == ShapeInit /\ [][ShapeNext]_vars

\* ------------------------------------- init, POST /settings and the logger
\* how many calls of init, POST /settings, setLevel and log are made
MaxCalls == 3

\* the configurations the host hands to init: none, a websocket object with
\* a valid port, one with a port below 1024
InitConfigs == {NoArg, Body(Port(6000), Undef), Body(Port(80), Undef)}

\* the bodies of POST /settings: {}, a valid and an invalid port, a websocket
\* object without a port, a valid and an invalid level, logging: null
PostBodies ==
    {NoArg, Body(Port(6000), Undef), Body(Port(80), Undef), Body(Obj(<<>>), Undef),
     Body(Undef, Level("debug")), Body(Undef, Level("verbose")), Body(Undef, Null)}

\* the arguments of Logger.setLevel: the four levels, a key of LogLevels and
\* a name that is neither
LevelArgs == {Str(l) : l \in {"debug", "info", "warn", "error", "DEBUG", "verbose"}}

\* the module has been loaded, init has not been called
SettingsInit ==
    /\ Quiet
    /\ probe = NoProbe
    /\ plugin = PluginLoaded
    /\ client = ClientLoaded

\* the host calls init(pluginConfig), once
InitPlugin(pluginConfig) ==
    /\ Len(plugin.calls) < MaxCalls
    /\ \A i \in 1..Len(plugin.calls) : plugin.calls[i].op # "init"
    /\ plugin' = init(plugin, pluginConfig)
    /\ UNCHANGED <<conn, registeredTools, inbox, sent, pending, batch, invoked, probe,
                   client>>

\* a POST /settings request is handled
PostSettings(body) ==
    /\ Len(plugin.calls) < MaxCalls
    /\ plugin' = postSettings(plugin, body)
    /\ UNCHANGED <<conn, registeredTools, inbox, sent, pending, batch, invoked, probe,
                   client>>

\* logger.setLevel(level)
SetLevel(level) ==
    /\ Len(plugin.calls) < MaxCalls
    /\ plugin' = [plugin EXCEPT
                      !.level = setLevel(@, level),
                      !.calls = Append(@, Call("setLevel", [NoArg EXCEPT !.level = level],
                                               "", <<level>>, <<>>))]
    /\ UNCHANGED <<conn, registeredTools, inbox, sent, pending, batch, invoked, probe,
                   client>>

\* logger.log(level, message) through debug(), info(), warn() or error()
Log(level) ==
    /\ Len(plugin.calls) < MaxCalls
    /\ plugin' = [plugin EXCEPT
                      !.calls = Append(@, Call("log", [NoArg EXCEPT !.level = Str(level)],
                                               "", <<>>, log(plugin.level, level)))]
    /\ UNCHANGED <<conn, registeredTools, inbox, sent, pending, batch, invoked, probe,
                   client>>

SettingsNext ==
    \/ \E pluginConfig \in InitConfigs : InitPlugin(pluginConfig)
    \/ \E body \in PostBodies : PostSettings(body)
    \/ \E level \in LevelArgs : SetLevel(level)
    \/ \E level \in DOMAIN LOG_LEVEL_VALUES : Log(level)

SettingsSpec == SettingsInit /\ [][SettingsNext]_vars

\* ------------------------------------------------------ the browser client
\* how often Restart Server is clicked and how often the server goes away
MaxClicks == 2
MaxLosses == 2

\* initializeMCP has run: the first connectWebSocket() has been made
ClientInit ==
    /\ Quiet
    /\ probe = NoProbe
    /\ plugin = Started
    /\ client = connectWebSocket(ClientLoaded)

\* the click handler of Restart Server: saveSettings() posts the client's
\* settings, then connectWebSocket()
RestartClick ==
    /\ client.clicks < MaxClicks
    /\ plugin' = postSettings(plugin, DEFAULT_SETTINGS)
    /\ client' = connectWebSocket([client EXCEPT !.clicks = @ + 1])
    /\ UNCHANGED <<conn, registeredTools, inbox, sent, pending, batch, invoked, probe>>

\* socket.onopen of the current socket
Open ==
    /\ client.socket = "connecting"
    /\ client.reachable
    /\ client' = [client EXCEPT !.socket = "open", !.connected = TRUE]
    /\ UNCHANGED <<conn, registeredTools, inbox, sent, pending, batch, invoked, probe,
                   plugin>>

\* the connection attempt of the current socket fails: onerror, then onclose
Fail ==
    /\ client.socket = "connecting"
    /\ ~client.reachable
    /\ client' = onclose([client EXCEPT !.socket = "closed"])
    /\ UNCHANGED <<conn, registeredTools, inbox, sent, pending, batch, invoked, probe,
                   plugin>>

\* the server goes away
ServerDown ==
    /\ client.reachable
    /\ client.losses < MaxLosses
    /\ client' = [client EXCEPT !.reachable = FALSE, !.losses = @ + 1]
    /\ UNCHANGED <<conn, registeredTools, inbox, sent, pending, batch, invoked, probe,
                   plugin>>

\* the server is back
ServerUp ==
    /\ ~client.reachable
    /\ client' = [client EXCEPT !.reachable = TRUE]
    /\ UNCHANGED <<conn, registeredTools, inbox, sent, pending, batch, invoked, probe,
                   plugin>>

\* the connection of the current socket is lost: onclose
Drop ==
    /\ client.socket = "open"
    /\ ~client.reachable
    /\ client' = onclose([client EXCEPT !.socket = "closed"])
    /\ UNCHANGED <<conn, registeredTools, inbox, sent, pending, batch, invoked, probe,
                   plugin>>

\* the close event of a socket that connectWebSocket closed and replaced
StaleClose ==
    /\ client.stale > 0
    /\ client' = onclose([client EXCEPT !.stale = @ - 1])
    /\ UNCHANGED <<conn, registeredTools, inbox, sent, pending, batch, invoked, probe,
                   plugin>>

\* a timer set by onclose fires: connectWebSocket()
Timer ==
    /\ client.timers > 0
    /\ client' = connectWebSocket([client EXCEPT !.timers = @ - 1])
    /\ UNCHANGED <<conn, registeredTools, inbox, sent, pending, batch, invoked, probe,
                   plugin>>

ClientNext ==
    \/ RestartClick
    \/ Open
    \/ Fail
    \/ ServerDown
    \/ ServerUp
    \/ Drop
    \/ StaleClose
    \/ Timer

\* The browser delivers every event it has queued and fires every timer, and
\* the server comes back: weak fairness of each of those steps.
ClientSpec ==
    /\ ClientInit
    /\ [][ClientNext]_vars
    /\ WF_vars(Open) /\ WF_vars(Fail) /\ WF_vars(Drop)
    /\ WF_vars(StaleClose) /\ WF_vars(Timer) /\ WF_vars(ServerUp)

\* ----------------------------------------------------------- properties
Requests == 1..Len(inbox)

\* every send that the handling of request i will make has been made
Handled(i) == \A k \in 1..Len(pending) : pending[k].id # i

\* the ws.send calls made on connection p while handling request i, in order
Caused(p, i) == SelectSeq(sent[p], LAMBDA o : o.cause = i)

IsStatus(o) == o.type = "execution_status"
IsTerminal(o) == IsStatus(o) /\ o.status \in {COMPLETED, FAILED}

\* a request received on the main endpoint with the given message type
OnMain(i, type) ==
    /\ inbox[i].peer \in Peers
    /\ inbox[i].msg.js = "object"
    /\ inbox[i].msg.type = Str(type)

\* the envelope has the documented form {type, data: {...}}: the payload
\* fields are in data and not on the envelope
DocumentedForm(m) ==
    /\ m.data.js = "object"
    /\ m.name = Undef /\ m.schema = NoSchema /\ m.executionId = Undef /\ m.args = Undef

\* a successful registration: the acknowledgements sent while handling i
Acks(i) == SelectSeq(sent[inbox[i].peer],
                     LAMBDA o : o.cause = i /\ o.type = "register_tool_response"
                                /\ o.success)

\* C1: a register_tool message in the documented envelope form whose name is a
\* non-empty string and whose schema is well-formed is answered to its sender
\* with exactly one register_tool_response with success=true that carries the
\* descriptor (name, schema, description), and with no error envelope.
C1_DocumentedRegisterAcknowledged ==
    \A i \in Requests :
        LET m == inbox[i].msg
            p == inbox[i].peer
        IN (/\ OnMain(i, "register_tool")
            /\ Handled(i)
            /\ DocumentedForm(m)
            /\ Truthy(m.data.name) /\ TypeOf(m.data.name) = "string"
            /\ validateSchema(m.data.schema).ok)
           => /\ Len(Acks(i)) = 1
              /\ Acks(i)[1].tool.name = m.data.name
              /\ Acks(i)[1].tool.schema = m.data.schema
              /\ Acks(i)[1].tool.description = m.data.description
              /\ \A k \in 1..Len(sent[p]) :
                     ~(sent[p][k].cause = i /\ sent[p][k].type = "error")

\* the register_tool events sent to connection q while handling request i
Events(q, i) == SelectSeq(sent[q], LAMBDA o : o.cause = i /\ o.type = "register_tool")

lookup(name) ==
    {registeredTools[k].tool : k \in {j \in 1..Len(registeredTools) :
                                          registeredTools[j].key = name}}

\* the successful registrations of the tool named like the one of request i
\* that were made up to now
LatestFor(i) ==
    CHOOSE j \in Requests :
        /\ inbox[j].peer \in Peers /\ Len(Acks(j)) = 1
        /\ Acks(j)[1].tool.name = Acks(i)[1].tool.name
        /\ \A h \in Requests :
             (inbox[h].peer \in Peers /\ Len(Acks(h)) = 1
              /\ Acks(h)[1].tool.name = Acks(i)[1].tool.name) => h <= j

\* C3: after a successful registration of a tool named N the registry holds a
\* descriptor for N, lookup(N) returns the one of the latest registration of N,
\* and every later discover on the discovery endpoint lists N.
C3_RegistryHoldsRegistered ==
    \A i \in Requests :
        (inbox[i].peer \in Peers /\ Len(Acks(i)) = 1)
        => /\ lookup(Acks(i)[1].tool.name) = {Acks(LatestFor(i))[1].tool}
           /\ \A k \in 1..Len(sent[DiscoveryPeer]) :
                 LET o == sent[DiscoveryPeer][k]
                 IN (o.type = "discover_response" /\ o.cause > i)
                    => \E t \in 1..Len(o.tools) :
                           o.tools[t].name = Acks(i)[1].tool.name

\* a well-formed execution request: it passes validateMCPMessage and
\* validateToolExecution and reaches handleToolExecution
Executes(i) ==
    /\ OnMain(i, "execute_tool")
    /\ validateMCPMessage(inbox[i].msg).ok
    /\ validateToolExecution(inbox[i].msg.data).ok

\* the status events sent to connection p while handling request i
Statuses(p, i) == SelectSeq(sent[p], LAMBDA o : o.cause = i /\ IsStatus(o))

\* request j registered, before request i, the tool that request i names
RegisteredBefore(j, i) ==
    /\ j < i
    /\ inbox[j].peer \in Peers
    /\ Len(Acks(j)) = 1
    /\ Acks(j)[1].tool.name = inbox[i].msg.data.name

\* C4: after a tool has been registered with an object schema, an execute_tool
\* request for it whose args conform to the schema yields a started status, then
\* a completed status, then an execute_tool_response with the handler's result.
C4_ExecuteYieldsCompleted ==
    \A i \in Requests :
        (/\ Executes(i)
         /\ Handled(i)
         /\ \E j \in Requests :
               /\ RegisteredBefore(j, i)
               /\ Acks(j)[1].tool.schema.type = "object"
               /\ validateValue(inbox[i].msg.data.args, Acks(j)[1].tool.schema).valid)
        => LET c == Caused(inbox[i].peer, i)
           IN /\ Len(c) = 3
              /\ IsStatus(c[1]) /\ c[1].status = STARTED
              /\ IsStatus(c[2]) /\ c[2].status = COMPLETED
              /\ c[3].type = "execute_tool_response"
              /\ c[3].executionId = inbox[i].msg.data.executionId

\* C5: an execute_tool request whose args do not satisfy the schema of the
\* registered tool it names fails with a validation failure reported to the
\* origin, and the tool handler is not invoked for it.
C5_InvalidArgsRejected ==
    \A i \in Requests :
        (/\ Executes(i)
         /\ Handled(i)
         /\ \E j \in Requests :
               /\ RegisteredBefore(j, i)
               /\ ~validateValue(inbox[i].msg.data.args, Acks(j)[1].tool.schema).valid)
        => /\ \E k \in 1..Len(sent[inbox[i].peer]) :
                 LET o == sent[inbox[i].peer][k]
                 IN o.cause = i /\ o.type = "error" /\ o.code = INVALID_ARGUMENTS
           /\ \A k \in 1..Len(invoked) : invoked[k].cause # i

InFlight(i) ==
    /\ Executes(i)
    /\ ~Handled(i)
    /\ Len(Statuses(inbox[i].peer, i)) > 0

\* C7: of two execute_tool requests with the same executionId, the second
\* arriving before the first is terminal, only one is accepted: they are never
\* both started.
C7_DuplicateNeverBothStarted ==
    \A i \in Requests : \A j \in Requests :
        (/\ i < j
         /\ InFlight(i)
         /\ Executes(j)
         /\ inbox[j].msg.data.executionId = inbox[i].msg.data.executionId)
        => /\ Statuses(inbox[j].peer, j) = <<>>
           /\ \A k \in 1..Len(invoked) : invoked[k].cause # j

NewSends(p) == SubSeq(sent'[p], Len(sent[p]) + 1, Len(sent'[p]))

\* C11: every execution status update (started, completed, failed) is sent to
\* all clients that are connected when the update is made, not only to the
\* client that requested the execution.
C11_StatusBroadcastToAll ==
    [][\A p \in Peers : \A k \in 1..Len(NewSends(p)) :
          IsStatus(NewSends(p)[k])
          => \A q \in Peers :
                conn[q] = "open"
                => \E l \in 1..Len(NewSends(q)) :
                      /\ IsStatus(NewSends(q)[l])
                      /\ NewSends(q)[l].executionId = NewSends(p)[k].executionId
                      /\ NewSends(q)[l].status = NewSends(p)[k].status]_vars

\* a message that validateMCPMessage rejects (JSON.parse succeeded)
FailsShape(i) ==
    /\ inbox[i].msg.js # "unparsable"
    /\ ~validateMCPMessage(inbox[i].msg).ok

\* nothing was sent to a connection other than the origin while handling i,
\* no continuation of an execution is queued for it and executeTool was not
\* called for it
OriginOnly(i) ==
    /\ \A q \in Endpoints : q # inbox[i].peer => Caused(q, i) = <<>>
    /\ \A k \in 1..Len(pending) :
          pending[k].id = i => pending[k].kind = "listenerCatch"
    /\ \A k \in 1..Len(invoked) : invoked[k].cause # i

C13_EveryMessageAnswered ==
    \A i \in Requests :
        (Handled(i) /\ readyOpen(inbox[i].peer))
        => \E k \in 1..Len(sent[inbox[i].peer]) :
              sent[inbox[i].peer][k].cause = i

\* the error envelopes sent to the origin while handling request i
Errors(i) == SelectSeq(sent[inbox[i].peer],
                       LAMBDA o : o.cause = i /\ o.type = "error")

\* request i was refused with the given code: one error envelope with that
\* code to the origin, no acknowledgement, no register_tool event to anyone,
\* and an empty registry
Refused(i, code) ==
    /\ Len(Errors(i)) = 1
    /\ Errors(i)[1].code = code
    /\ Acks(i) = <<>>
    /\ \A q \in Peers : Events(q, i) = <<>>
    /\ \A q \in Endpoints : q # inbox[i].peer => Caused(q, i) = <<>>
    /\ registeredTools = <<>>

\* a register_tool request whose handling has ended with its sender connected
RegisterDone(i) ==
    /\ OnMain(i, "register_tool")
    /\ inbox[i].msg.data.js = "object"
    /\ Handled(i)
    /\ readyOpen(inbox[i].peer)

NameOk(data) == Truthy(data.name) /\ TypeOf(data.name) = "string"

\* C14: a register_tool request whose name is empty or not a string fails with
\* INVALID_NAME, and one whose schema does not pass shape validation fails with
\* INVALID_SCHEMA; the error goes to the origin only, no success response and
\* no broadcast is sent, and the registry is unchanged.
C14_InvalidRegistrationCodes ==
    \A i \in Requests :
        RegisterDone(i)
        => LET data == inbox[i].msg.data
           IN /\ ~NameOk(data) => Refused(i, INVALID_NAME)
              /\ (NameOk(data) /\ ~validateSchema(data.schema).ok)
                 => Refused(i, INVALID_SCHEMA)

\* C15: a register_tool request whose top-level schema type is string, number,
\* integer, boolean, null or array fails with INVALID_SCHEMA even when the
\* schema is otherwise well-formed.
C15_TopLevelMustBeObject ==
    \A i \in Requests :
        (/\ RegisterDone(i)
         /\ NameOk(inbox[i].msg.data)
         /\ inbox[i].msg.data.schema.js = "object"
         /\ inbox[i].msg.data.schema.type
               \in {"string", "number", "integer", "boolean", "null", "array"})
        => Refused(i, INVALID_SCHEMA)

\* C16: for two messages m1 then m2 received on the same connection, every
\* outbound message caused by m1 is sent before any outbound message caused
\* by m2, also when m1 is an execute_tool whose handler is still pending when
\* m2 arrives.
C16_ReceiptOrder ==
    \A i \in Requests : \A j \in Requests :
        (/\ i < j
         /\ inbox[i].peer = inbox[j].peer
         /\ \E q \in Endpoints : Caused(q, j) # <<>>)
        => /\ Handled(i)
           /\ \A q \in Endpoints : \A k \in 1..Len(sent[q]) : \A l \in 1..Len(sent[q]) :
                 (sent[q][k].cause = j /\ sent[q][l].cause = i) => l < k

\* the execution of request i has reached its terminal status
Terminated(i) ==
    /\ Len(Statuses(inbox[i].peer, i)) = 2
    /\ IsTerminal(Statuses(inbox[i].peer, i)[2])

DiscoverStep ==
    /\ Len(inbox') = Len(inbox) + 1
    /\ inbox'[Len(inbox')].peer \in Peers
    /\ inbox'[Len(inbox')].msg.js = "object"
    /\ inbox'[Len(inbox')].msg.type = Str("discover")

CodePoints(s) == IF s \in Astral THEN 1 ELSE Len(s)

RECURSIVE Conforms(_, _)
\* value conforms to schema: the right kind at every node, all required keys
\* present, bounds and enum respected; lengths of strings are counted in code
\* points and equality is equality of values
Conforms(value, schema) ==
    /\ value.t = (IF schema.type = "integer" THEN "number" ELSE schema.type)
    /\ schema.type = "object"
       => /\ \A i \in 1..Len(schema.required) : HasKey(value, schema.required[i])
          /\ \A i \in 1..Len(schema.props) :
                HasKey(value, schema.props[i].k)
                => Conforms(GetKey(value, schema.props[i].k), schema.props[i].v)
    /\ schema.type = "array"
       => /\ \A i \in 1..Len(value.f) : Conforms(value.f[i].v, schema.items[1])
          /\ schema.kw.minItems # Undef => Len(value.f) >= schema.kw.minItems.n
          /\ schema.kw.maxItems # Undef => Len(value.f) <= schema.kw.maxItems.n
          /\ schema.kw.uniqueItems = Bool(TRUE)
             => \A i \in 1..Len(value.f) : \A j \in 1..Len(value.f) :
                   i # j => value.f[i].v # value.f[j].v
    /\ schema.type = "string"
       => /\ schema.kw.minLength # Undef => CodePoints(value.s) >= schema.kw.minLength.n
          /\ schema.kw.maxLength # Undef => CodePoints(value.s) <= schema.kw.maxLength.n
    /\ schema.type \in {"number", "integer"}
       => /\ schema.kw.minimum # Undef => value.n >= schema.kw.minimum.n
          /\ schema.kw.maximum # Undef => value.n <= schema.kw.maximum.n
          /\ schema.kw.multipleOf # Undef => value.n % schema.kw.multipleOf.n = 0
    /\ schema.kw.enum # Undef
       => \E i \in 1..Len(schema.kw.enum.f) : schema.kw.enum.f[i].v = value

\* C19: for every schema accepted by shape validation and every value built to
\* conform to it, validating the value against the schema returns valid=true
\* with an empty error list.
C19_ConformingValueAccepted ==
    (/\ probe.done
     /\ validateSchema(probe.schema).ok
     /\ Conforms(probe.value, probe.schema))
    => /\ probe.result.valid
       /\ probe.result.errors = <<>>

\* the "must be unique" errors of a result
UniqueErrors(result) ==
    SelectSeq(result.errors, LAMBDA e : e = Err("Array items must be unique"))

\* C20: for an array schema with uniqueItems, value validation reports exactly
\* one "must be unique" error when two elements of the array are equal and
\* none when all are pairwise distinct, equality of objects and arrays being
\* equality of their contents.
C20_UniqueItemsByValue ==
    (/\ probe.done
     /\ probe.schema.type = "array"
     /\ probe.schema.kw.uniqueItems = Bool(TRUE)
     /\ probe.value.t = "array")
    => Len(UniqueErrors(probe.result))
         = IF \E i \in 1..Len(probe.value.f) : \E j \in 1..Len(probe.value.f) :
                 i # j /\ probe.value.f[i].v = probe.value.f[j].v
           THEN 1 ELSE 0

\* --------------------------------------------- the schema data model
\* the kinds a schema node may have
Kinds == {"string", "number", "integer", "boolean", "null", "array", "object"}

\* node is an array node that declares no items
MissingItems(node) == node.type = "array" /\ Len(node.items) = 0

\* node is an object node whose required list names a property that is not
\* a key of its properties
UndeclaredRequired(node) ==
    /\ node.type = "object"
    /\ \E i \in 1..Len(node.required) :
          \A j \in 1..Len(node.props) : node.props[j].k # node.required[i]

\* node has no kind or a kind outside Kinds
BadKind(node) == node.type \notin Kinds

\* node breaks an invariant of the data model
Violates(node) == BadKind(node) \/ MissingItems(node) \/ UndeclaredRequired(node)

RECURSIVE Violations(_, _)
RECURSIVE PropViolations(_, _, _)

\* how many property schemas from the i-th on, with their descendants, are of
\* the given sort
PropViolations(props, sort, i) ==
    IF i > Len(props) THEN 0
    ELSE Violations(props[i].v, sort) + PropViolations(props, sort, i + 1)

\* how many nodes of schema, the node itself and what is reached through the
\* properties of object nodes and the items of array nodes, are of the given
\* sort: "missingItems", "undeclared", "badKind", or "any" violation
Violations(schema, sort) ==
    (IF CASE sort = "missingItems" -> MissingItems(schema)
          [] sort = "undeclared" -> UndeclaredRequired(schema)
          [] sort = "badKind" -> BadKind(schema)
          [] OTHER -> Violates(schema)
     THEN 1 ELSE 0)
    + (IF schema.type = "object" THEN PropViolations(schema.props, sort, 1) ELSE 0)
    + (IF schema.type = "array" /\ Len(schema.items) = 1
       THEN Violations(schema.items[1], sort) ELSE 0)

RECURSIVE Reported(_, _)
\* the messages of an errors list from the i-th entry on, an entry that joins
\* nested messages counting for those
Reported(errors, i) ==
    IF i > Len(errors) THEN <<>>
    ELSE (IF errors[i].sub = <<>> THEN <<errors[i].msg>>
          ELSE Reported(errors[i].sub, 1))
         \o Reported(errors, i + 1)

\* the messages a finished call of a shape validator reported: the message
\* of the one error thrown, or the messages of the errors list returned
ShapeMessages ==
    IF probe.call = "validateSchema"
    THEN IF probe.result.ok THEN <<>> ELSE <<probe.result.message>>
    ELSE Reported(probe.result.errors, 1)

\* C21: for a schema whose only violation is one array node without items, at
\* the top level or nested under properties or items, shape validation
\* reports exactly one error, and that error is about the missing items
\* definition.
C21_MissingItemsOneError ==
    (/\ probe.done
     /\ probe.call \in {"validateSchema", "validateToolSchema"}
     /\ Violations(probe.schema, "any") = 1
     /\ Violations(probe.schema, "missingItems") = 1)
    => ShapeMessages = <<"Array schema must have items definition">>

\* C23: shape validation rejects with INVALID_SCHEMA every schema that has, at
\* any depth reached through properties or items, an object node whose
\* required list names a property that is not a key of its properties, or a
\* node whose kind is not one of the seven kinds.
C23_UndeclaredOrBadKindRejected ==
    (/\ probe.done
     /\ probe.call = "validateSchema"
     /\ \/ Violations(probe.schema, "undeclared") > 0
        \/ Violations(probe.schema, "badKind") > 0)
    => /\ ~probe.result.ok
       /\ probe.result.code = INVALID_SCHEMA

\* C24: shape validation accepts every schema in which each node has one valid
\* kind, every array node declares items and every non-empty required list
\* is a subset of the node's properties keys; an object node with an empty
\* required list and no properties is such a schema.
C24_WellFormedAccepted ==
    (/\ probe.done
     /\ probe.call = "validateSchema"
     /\ Violations(probe.schema, "any") = 0)
    => probe.result.ok

\* C25: shape validation returns all violations of a schema, not just the
\* first: for a schema in which k nodes each break an invariant, the result
\* lists at least k messages.
C25_AllViolationsReported ==
    (/\ probe.done
     /\ probe.call \in {"validateSchema", "validateToolSchema"})
    => Len(ShapeMessages) >= Violations(probe.schema, "any")

\* C27: a register_tool request that reaches handleToolRegistration with a
\* schema that validateToolSchema reports as invalid fails: the origin gets
\* one error envelope with code TOOL_REGISTRATION_FAILED and no success
\* response, and no register_tool broadcast goes to any other peer.
C27_InvalidToolSchemaFails ==
    \A i \in Requests :
        (/\ RegisterDone(i)
         /\ validateMCPMessage(inbox[i].msg).ok
         /\ validateToolRegistration(inbox[i].msg.data).ok
         /\ ~validateToolSchema(inbox[i].msg.data.schema).valid)
        => Refused(i, TOOL_REGISTRATION_FAILED)

\* how many entries of a result's errors list are the given message
Count(result, msg) == Len(SelectSeq(result.errors, LAMBDA e : e = Err(msg)))

\* C26: for a schema of kind number or integer and a value of that kind, value
\* validation reports a minimum error iff value < minimum, a maximum error iff
\* value > maximum, and a multipleOf error iff value modulo multipleOf is not
\* zero; a value equal to a bound gets no bound error.
C26_NumericBounds ==
    (/\ probe.done
     /\ probe.schema.type \in {"number", "integer"}
     /\ probe.value.t = "number")
    => LET kw == probe.schema.kw
           v == probe.value.n
       IN /\ Count(probe.result, "Value must be >= minimum")
               = IF kw.minimum # Undef /\ v < kw.minimum.n THEN 1 ELSE 0
          /\ Count(probe.result, "Value must be <= maximum")
               = IF kw.maximum # Undef /\ v > kw.maximum.n THEN 1 ELSE 0
          /\ Count(probe.result, "Value must be multiple of multipleOf")
               = IF kw.multipleOf # Undef /\ v % kw.multipleOf.n # 0 THEN 1 ELSE 0

\* C26 happens: a number equal to its minimum was validated without a bound
\* error while failing multipleOf
C26_Witness ==
    /\ probe.done
    /\ probe.schema.type = "integer"
    /\ probe.schema.kw.minimum = Num(0)
    /\ probe.schema.kw.maximum = Num(2)
    /\ probe.value \in {Num(0), Num(2)}
    /\ Count(probe.result, "Value must be >= minimum") = 0
    /\ Count(probe.result, "Value must be <= maximum") = 0
    /\ probe.value = Num(2) => Count(probe.result, "Value must be multiple of multipleOf") = 1

\* ----------------------------------------------- settings and the logger
\* settings passes settings validation with both values present
SettingsValid(settings) ==
    LET port == Prop(settings.websocket, "port")
        level == Prop(settings.logging, "level")
    IN /\ port.t = "number" /\ port.n >= 1024 /\ port.n <= 65535
       /\ level.t = "string" /\ level.s \in {"debug", "info", "warn", "error"}

\* C22: once init has completed, and after any sequence of POST /settings
\* requests, the stored settings have a websocket.port that is an integer
\* between 1024 and 65535 and a logging.level that is one of debug, info,
\* warn, error.
C22_StoredSettingsValid ==
    plugin.initialized => SettingsValid(plugin.settings)

\* the calls before the i-th that passed one of the four levels to setLevel
ValidSets(i) ==
    {j \in 1..(i - 1) :
        /\ plugin.calls[j].setLevel # <<>>
        /\ plugin.calls[j].setLevel[1].t = "string"
        /\ plugin.calls[j].setLevel[1].s \in DOMAIN LOG_LEVEL_VALUES}

\* C28: after setLevel(l) with l one of debug, info, warn, error, a message
\* logged at level m is written iff the severity of m is at least that of l,
\* l being the argument of the last such setLevel call.
C28_LastValidLevelWins ==
    \A i \in 1..Len(plugin.calls) :
        (plugin.calls[i].op = "log" /\ ValidSets(i) # {})
        => LET j == CHOOSE k \in ValidSets(i) : \A h \in ValidSets(i) : h <= k
               l == plugin.calls[j].setLevel[1].s
               m == plugin.calls[i].arg.level.s
           IN plugin.calls[i].lines # <<>>
              <=> LOG_LEVEL_VALUES[m] >= LOG_LEVEL_VALUES[l]

\* this step is a POST /settings request that ends in an error response
PostFails ==
    /\ Len(plugin'.calls) = Len(plugin.calls) + 1
    /\ plugin'.calls[Len(plugin'.calls)].op = "post"
    /\ plugin'.calls[Len(plugin'.calls)].status \in {"400", "500"}

\* C29: a POST /settings request that ends in an error response leaves the
\* stored settings, the logger level and the listeners as they were.
C29_FailedPostChangesNothing ==
    [][PostFails
       => /\ plugin'.settings = plugin.settings
          /\ plugin'.level = plugin.level
          /\ plugin'.wsServer = plugin.wsServer
          /\ plugin'.discoveryServer = plugin.discoveryServer]_vars

\* ------------------------------------------------------ the browser client
\* C30: the client's reconnect logic converges: after Restart Server with a
\* socket open, or after a connection loss with the server reachable again,
\* the client eventually holds one open socket for good: no close event of
\* a replaced socket and no reconnect timer is left to tear it down.
C30_ReconnectConverges ==
    <>[](/\ client.socket = "open"
         /\ client.stale = 0
         /\ client.timers = 0)

====
